---- MODULE Spec2Model ----
(***************************************************************************)
(* Model of generator/create.py: the mock e-commerce dataset generator.    *)
(* The script's __main__ block is a strict pipeline over six collections   *)
(* (users, categories, products, product_categories, orders,               *)
(* product_reviews); the generate_* functions build one record each and    *)
(* keep the uniqueness registries (Python sets) they are handed.           *)
(*                                                                         *)
(* Conventions                                                             *)
(*  - str(ObjectId()) is a fresh opaque id: the counter next_id.           *)
(*  - None is the value None (0); ids and days are >= 1.                   *)
(*  - Text values that the code computes on (names, slugs) are sequences   *)
(*    of one-character strings; create_slug works on them character by     *)
(*    character.                                                           *)
(*  - Money is held in cents; round(x, 2) is rounding to a whole cent.     *)
(*  - Every random draw is an existentially chosen value. The variable     *)
(*    varied names the draws the random source varies in the run: a draw   *)
(*    named in it ranges over its whole (scaled) space, any other draw     *)
(*    over one representative value. A step is given it as w.              *)
(*  - A "while value in registry: redraw" loop inside a generator is one   *)
(*    atomic call that returns some value not in the registry; when the    *)
(*    registry holds the whole space the call never returns and the step   *)
(*    is not enabled.                                                      *)
(***************************************************************************)
EXTENDS Integers, Sequences, FiniteSets, TLC

\* ------------------------------------------------------------------ bounds
\* Record counts of the run, scaled down from the 10,000 of the script.
NumUsers == 2
NumCategories == 6
RootCount == 2
NumProducts == 2
NumOrders == 1
NumReviews == 3
\* random.randint(50, 200) for the size of a category level, scaled down.
LevelMin == 1
LevelMax == 2

\* ------------------------------------------------------- program constants
max_levels == 3
MaxLinkCategories == 3
MaxItems == 5
MaxQuantity == 5
ShipMin == 1
ShipMax == 5
DeliverMin == 5
DeliverMax == 10

None == 0

\* ------------------------------------------------------------- utilities
Min(a, b) == IF a <= b THEN a ELSE b

Least(S) == CHOOSE x \in S : \A y \in S : x <= y

Range(s) == {s[i] : i \in DOMAIN s}

\* The values a draw ranges over: all of S when the draw is named in w,
\* else the one representative rep (when S holds it).
Draw(name, w, S, rep) == IF name \in w THEN S ELSE S \cap {rep}

\* The same for a draw of numbers, the representative being the least.
DrawInt(name, w, S) == IF name \in w \/ S = {} THEN S ELSE {Least(S)}

\* The same for a draw of any values, the representative being a fixed one.
DrawAny(name, w, S) ==
    IF name \in w \/ S = {} THEN S ELSE {CHOOSE x \in S : TRUE}

\* k positions drawn with replacement (random.choices).
SamplesWithReplacement(n, k) == [1..k -> 1..n]

\* random.sample(population, k): k distinct positions, in the order drawn.
Samples(n, k) ==
    {s \in [1..k -> 1..n] : \A i, j \in 1..k : i # j => s[i] # s[j]}

FirstSample(k) == [i \in 1..k |-> i]

RECURSIVE SumSeq(_)
SumSeq(s) == IF s = <<>> THEN 0 ELSE s[1] + SumSeq(Tail(s))

\* ---------------------------------------------------------------- text
Lower(c) ==
    CASE c = "A" -> "a"
      [] c = "B" -> "b"
      [] OTHER -> c

Upper(c) ==
    CASE c = "a" -> "A"
      [] c = "b" -> "B"
      [] OTHER -> c

SlugChars == {"a", "b", "0", "1", "2", "3", "4", "5", "6", "7", "8", "9", "-"}

\* str.capitalize(): first character upper case, the rest lower case.
Capitalize(word) ==
    [i \in DOMAIN word |-> IF i = 1 THEN Upper(word[i]) ELSE Lower(word[i])]

RECURSIVE Strip(_)
Strip(s) ==
    IF s = <<>> THEN <<>>
    ELSE IF s[1] \in SlugChars THEN <<s[1]>> \o Strip(Tail(s))
    ELSE Strip(Tail(s))

\* create_slug(name): lower(), " " -> "-", then drop all but [a-z0-9-].
create_slug(name) ==
    LET lowered == [i \in DOMAIN name |-> Lower(name[i])]
        hyphened == [i \in DOMAIN lowered |->
                        IF lowered[i] = " " THEN "-" ELSE lowered[i]]
    IN  Strip(hyphened)

DigitChar(d) ==
    CASE d = 0 -> "0" [] d = 1 -> "1" [] d = 2 -> "2" [] d = 3 -> "3"
      [] d = 4 -> "4" [] d = 5 -> "5" [] d = 6 -> "6" [] d = 7 -> "7"
      [] d = 8 -> "8" [] d = 9 -> "9"

\* str(n) of a natural number.
RECURSIVE Digits(_)
Digits(n) ==
    IF n < 10 THEN <<DigitChar(n)>>
    ELSE Digits(n \div 10) \o <<DigitChar(n % 10)>>

\* fake.word(): the words the fake-data source may return.
Words == {<<"a">>, <<"b", "a">>}

\* fake.word().capitalize() + " " + fake.word().capitalize()
CategoryNames(w) ==
    Draw("name", w,
         {Capitalize(x) \o <<" ">> \o Capitalize(y) : x, y \in Words},
         Capitalize(<<"a">>) \o <<" ">> \o Capitalize(<<"a">>))

\* random.randint(1000, 9999) of the slug suffix: the two ends of the range.
SlugSuffixes(w) == DrawInt("suffix", w, {1000, 9999})

\* The slugs the "while slug in slug_set" loop can end with.
RECURSIVE UniqueSlugs(_, _, _)
UniqueSlugs(slug, set, w) ==
    IF slug \notin set THEN {slug}
    ELSE UNION {UniqueSlugs(slug \o <<"-">> \o Digits(n), set, w) :
                    n \in SlugSuffixes(w)}

\* ----------------------------------------------------------------- state
VARIABLES
    varied,                 \* the draws the random source varies in this run
    pc,                     \* the statement of __main__ the run is at
    next_id,                \* ObjectId(): the next fresh id
    sink,                   \* the files written, in order: <<filename, records>>
    email_set, users, user_ids,
    slug_set, categories, level_counts, level, parent_ids,
    level_categories, additional, category_ids,
    sku_set, products, product_ids,
    product_categories, product_category_pairs, link_index,
    order_number_set, orders,
    order_products,
    product_reviews, product_user_pairs, drawn

vars == <<varied, pc, next_id, sink, email_set, users, user_ids, slug_set, categories,
          level_counts, level, parent_ids, level_categories, additional,
          category_ids, sku_set, products, product_ids, product_categories,
          product_category_pairs, link_index, order_number_set, orders,
          order_products, product_reviews, product_user_pairs, drawn>>

userVars == <<email_set, users, user_ids>>
categoryVars == <<slug_set, categories, level_counts, level, parent_ids,
                  level_categories, additional, category_ids>>
productVars == <<sku_set, products, product_ids>>
linkVars == <<product_categories, product_category_pairs, link_index>>
orderVars == <<order_number_set, orders>>
reviewVars == <<order_products, product_reviews, product_user_pairs, drawn>>

\* The draw without the loop: any value of the space.
Unchecked(space, registry) == space

\* "while value in registry: value = redraw()": the values the loop can
\* leave with.
Unused(space, registry) == space \ registry

\* save_to_json(data, filename): one line per record, in order.
save_to_json(data, filename) == <<filename, data>>

Ids(records) == [i \in DOMAIN records |-> records[i]._id]

\* ----------------------------------------------------------------- users
\* fake.email(): the addresses the fake-data source may return.
EmailSpace == 1..(NumUsers + 1)

generate_user(email, id) == [_id |-> id, email |-> email]

\* One call of generate_user(email_set) of the comprehension of line 228.
GenerateUser(w) ==
    /\ pc = "GenerateUsers"
    /\ Len(users) < NumUsers
    /\ \E email \in DrawInt("email", w, Unused(EmailSpace, email_set)) :
          /\ email_set' = email_set \cup {email}
          /\ users' = Append(users, generate_user(email, next_id))
    /\ next_id' = next_id + 1
    /\ UNCHANGED <<varied, pc, sink, user_ids, categoryVars, productVars, linkVars,
                   orderVars, reviewVars>>

\* Lines 229-233: user_ids, users.json, and the empty slug registry.
FinishUsers ==
    /\ pc = "GenerateUsers"
    /\ Len(users) = NumUsers
    /\ user_ids' = Ids(users)
    /\ sink' = Append(sink, save_to_json(users, "users.json"))
    /\ pc' = "PlanCategories"
    /\ UNCHANGED <<varied, next_id, email_set, users, categoryVars, productVars,
                   linkVars, orderVars, reviewVars>>

\* ------------------------------------------------------------ categories
\* The level parameter is not stored by the code; the model keeps it to
\* tell in which level a category was generated.
generate_category(slug, name, parent_id, lvl, id) ==
    [_id |-> id, name |-> name, slug |-> slug,
     parentId |-> IF parent_id # None THEN parent_id ELSE None,
     level |-> lvl]

LevelSizes(w) == DrawInt("level_size", w, LevelMin..LevelMax)

\* Lines 235-240: level_counts, r[l] being the randint drawn for level l.
RECURSIVE PlanLevels(_, _, _, _)
PlanLevels(lvl, remaining, counts, r) ==
    IF lvl >= max_levels THEN counts
    ELSE LET n == Min(remaining \div (max_levels - lvl), r[lvl])
         IN  PlanLevels(lvl + 1, remaining - n, counts @@ (lvl :> n), r)

PlanCategories(w) ==
    /\ pc = "PlanCategories"
    /\ \E r \in [1..(max_levels - 1) -> LevelSizes(w)] :
          level_counts' = PlanLevels(1, NumCategories - RootCount,
                                     (0 :> RootCount), r)
    /\ pc' = "RootCategories"
    /\ UNCHANGED <<varied, next_id, sink, userVars, slug_set, categories, level,
                   parent_ids, level_categories, additional, category_ids,
                   productVars, linkVars, orderVars, reviewVars>>

\* Lines 60-64: the (name, slug) pairs one generate_category call can end
\* with, given the registry.
CategoryDraws(w) ==
    UNION {{<<name, slug>> : slug \in UniqueSlugs(create_slug(name), slug_set, w)} :
              name \in CategoryNames(w)}

\* Lines 242-243: one root category.
RootCategory(w) ==
    /\ pc = "RootCategories"
    /\ Len(categories) < level_counts[0]
    /\ \E ns \in CategoryDraws(w) :
          /\ slug_set' = slug_set \cup {ns[2]}
          /\ categories' =
                Append(categories, generate_category(ns[2], ns[1], None, 0, next_id))
    /\ next_id' = next_id + 1
    /\ UNCHANGED <<varied, pc, sink, userVars, level_counts, level, parent_ids,
                   level_categories, additional, category_ids, productVars,
                   linkVars, orderVars, reviewVars>>

\* Line 246: the parents a level may draw from.
ParentIds(lvl, cats) ==
    IF lvl = 1
    THEN Ids(SelectSeq(cats, LAMBDA c : c.parentId = None))
    ELSE Ids(cats)

\* Lines 245-248: the head of the loop over the levels: the next statement
\* for level lvl, given the categories so far.
LevelHead(lvl, cats) ==
    IF lvl >= max_levels \/ ParentIds(lvl, cats) = <<>>
    THEN "TopUpCategories"
    ELSE "LevelCategories"

BeginLevels ==
    /\ pc = "RootCategories"
    /\ Len(categories) = level_counts[0]
    /\ level' = 1
    /\ parent_ids' = ParentIds(1, categories)
    /\ pc' = LevelHead(1, categories)
    /\ UNCHANGED <<varied, next_id, sink, userVars, slug_set, categories, level_counts,
                   level_categories, additional, category_ids, productVars,
                   linkVars, orderVars, reviewVars>>

\* Line 249 drawing also among the categories of the level itself.
ParentChoicesWithBatch(pids, batch) == Range(pids) \cup Range(Ids(batch))

\* Line 249: random.choice(parent_ids), batch being the categories of the
\* level generated so far.
ParentChoices(pids, batch) == Range(pids)

\* Line 249: one category of the level's comprehension.
LevelCategory(w) ==
    /\ pc = "LevelCategories"
    /\ Len(level_categories) < level_counts[level]
    /\ \E ns \in CategoryDraws(w) :
       \E parent \in DrawInt("parent", w, ParentChoices(parent_ids, level_categories)) :
          /\ slug_set' = slug_set \cup {ns[2]}
          /\ level_categories' =
                Append(level_categories,
                       generate_category(ns[2], ns[1], parent, level, next_id))
    /\ next_id' = next_id + 1
    /\ UNCHANGED <<varied, pc, sink, userVars, categories, level_counts, level,
                   parent_ids, additional, category_ids, productVars,
                   linkVars, orderVars, reviewVars>>

\* Line 250, then the head of the next iteration.
EndLevel ==
    /\ pc = "LevelCategories"
    /\ Len(level_categories) = level_counts[level]
    /\ categories' = categories \o level_categories
    /\ level_categories' = <<>>
    /\ level' = level + 1
    /\ parent_ids' = IF level + 1 < max_levels
                     THEN ParentIds(level + 1, categories')
                     ELSE parent_ids
    /\ pc' = LevelHead(level + 1, categories')
    /\ UNCHANGED <<varied, next_id, sink, userVars, slug_set, level_counts, additional,
                   category_ids, productVars, linkVars, orderVars, reviewVars>>

\* Lines 252-253: one more root category while the total is short.
TopUpCategory(w) ==
    /\ pc = "TopUpCategories"
    /\ Len(categories) + Len(additional) < NumCategories
    /\ \E ns \in CategoryDraws(w) :
          /\ slug_set' = slug_set \cup {ns[2]}
          /\ additional' =
                Append(additional, generate_category(ns[2], ns[1], None, 0, next_id))
    /\ next_id' = next_id + 1
    /\ UNCHANGED <<varied, pc, sink, userVars, categories, level_counts, level,
                   parent_ids, level_categories, category_ids, productVars,
                   linkVars, orderVars, reviewVars>>

\* Lines 254-259: extend, category_ids, categories.json, the empty SKU registry.
FinishCategories ==
    /\ pc = "TopUpCategories"
    /\ Len(categories) + Len(additional) >= NumCategories
    /\ categories' = categories \o additional
    /\ additional' = <<>>
    /\ category_ids' = Ids(categories')
    /\ sink' = Append(sink, save_to_json(categories', "categories.json"))
    /\ pc' = "GenerateProducts"
    /\ UNCHANGED <<varied, next_id, userVars, slug_set, level_counts, level, parent_ids,
                   level_categories, productVars, linkVars, orderVars,
                   reviewVars>>

\* -------------------------------------------------------------- products
\* generate_sku(): "SKU-{randint(1000, 9999)}-{A|B|C}", the number drawn
\* from the two ends of its range.
generate_sku(n, letter) == <<"SKU", n, letter>>

SkuSpace == {generate_sku(n, c) : n \in {1000, 9999}, c \in {"A", "B", "C"}}

\* round(random.uniform(10, 500), 2), in cents.
PriceSpace == {1000, 1999, 50000}

\* The representative price of the i-th product.
PriceOf(i) == CASE i % 3 = 1 -> 1999 [] i % 3 = 2 -> 50000 [] OTHER -> 1000

generate_product(sku, price, id) == [_id |-> id, sku |-> sku, price |-> price]

\* One call of generate_product(sku_set) of the comprehension of line 260.
GenerateProduct(w) ==
    /\ pc = "GenerateProducts"
    /\ Len(products) < NumProducts
    /\ \E sku \in DrawAny("sku", w, Unused(SkuSpace, sku_set)) :
       \E price \in Draw("price", w, PriceSpace, PriceOf(Len(products) + 1)) :
          /\ sku_set' = sku_set \cup {sku}
          /\ products' = Append(products, generate_product(sku, price, next_id))
    /\ next_id' = next_id + 1
    /\ UNCHANGED <<varied, pc, sink, userVars, categoryVars, product_ids, linkVars,
                   orderVars, reviewVars>>

\* Lines 261-266 followed at once by the orders, the links left out.
FinishProductsSkippingLinks ==
    /\ pc = "GenerateProducts"
    /\ Len(products) = NumProducts
    /\ product_ids' = Ids(products)
    /\ sink' = Append(sink, save_to_json(products, "products.json"))
    /\ link_index' = 1
    /\ pc' = "GenerateOrders"
    /\ UNCHANGED <<varied, next_id, userVars, categoryVars, sku_set, products,
                   product_categories, product_category_pairs, orderVars,
                   reviewVars>>

\* Lines 261-266: product_ids, products.json, the empty link collections.
FinishProducts ==
    /\ pc = "GenerateProducts"
    /\ Len(products) = NumProducts
    /\ product_ids' = Ids(products)
    /\ sink' = Append(sink, save_to_json(products, "products.json"))
    /\ link_index' = 1
    /\ pc' = "LinkCategories"
    /\ UNCHANGED <<varied, next_id, userVars, categoryVars, sku_set, products,
                   product_categories, product_category_pairs, orderVars,
                   reviewVars>>

\* ---------------------------------------------------- product_categories
\* generate_product_category: isPrimary is the coin the generator flips.
generate_product_category(product_id, category_id, coin, id) ==
    [_id |-> id, productId |-> product_id, categoryId |-> category_id,
     isPrimary |-> coin]

\* Lines 271-278: the loop over the selected categories of one product, from
\* position i on. gen[i] is the generator's coin for the i-th category and
\* flip[i] the coordinator's (line 275). Gives the links, the pairs and the
\* next id at the end of the loop.
RECURSIVE LinkLoop(_, _, _, _, _, _, _, _, _)
LinkLoop(product_id, selected, i, links, pairs, is_primary_set, gen, flip, id) ==
    IF i > Len(selected)
    THEN [links |-> links, pairs |-> pairs, id |-> id]
    ELSE IF <<product_id, selected[i]>> \in pairs
         THEN LinkLoop(product_id, selected, i + 1, links, pairs,
                       is_primary_set, gen, flip, id)
         ELSE LET made == generate_product_category(product_id, selected[i],
                                                    gen[i], id)
                  mark == ~is_primary_set /\ flip[i]
                  link == IF mark THEN [made EXCEPT !.isPrimary = TRUE] ELSE made
              IN  LinkLoop(product_id, selected, i + 1, Append(links, link),
                           pairs \cup {<<product_id, selected[i]>>},
                           is_primary_set \/ mark, gen, flip, id + 1)

\* The coins used for a loop over k categories.
Coins(name, w, k, rep) == Draw(name, w, [1..k -> BOOLEAN], [i \in 1..k |-> rep])

\* Lines 267-278: the body of the loop for one product.
LinkProduct(w) ==
    /\ pc = "LinkCategories"
    /\ link_index <= Len(product_ids)
    /\ \E num_categories \in Draw("num_categories", w, 1..MaxLinkCategories, 2) :
       LET k == Min(num_categories, Len(category_ids)) IN
       \E sample \in Draw("link_sample", w, Samples(Len(category_ids), k),
                          FirstSample(k)) :
       \E gen \in Coins("primary_gen", w, k, FALSE) :
       \E flip \in Coins("primary_flip", w, k, TRUE) :
          LET selected == [i \in 1..k |-> category_ids[sample[i]]]
              out == LinkLoop(product_ids[link_index], selected, 1,
                              product_categories, product_category_pairs,
                              FALSE, gen, flip, next_id)
          IN  /\ product_categories' = out.links
              /\ product_category_pairs' = out.pairs
              /\ next_id' = out.id
    /\ link_index' = link_index + 1
    /\ UNCHANGED <<varied, pc, sink, userVars, categoryVars, productVars, orderVars,
                   reviewVars>>

\* Lines 279-282: product_categories.json, the empty order registry.
FinishLinks ==
    /\ pc = "LinkCategories"
    /\ link_index > Len(product_ids)
    /\ sink' = Append(sink, save_to_json(product_categories,
                                         "product_categories.json"))
    /\ pc' = "GenerateOrders"
    /\ UNCHANGED <<varied, next_id, userVars, categoryVars, productVars, linkVars,
                   orderVars, reviewVars>>

\* ---------------------------------------------------------------- orders
\* round(num / den, 2) of an amount of num / den cents: to the nearest
\* cent, a tie to the even cent.
Round2(num, den) ==
    LET q == num \div den
        r == num % den
    IN  IF 2 * r < den THEN q
        ELSE IF 2 * r > den THEN q + 1
        ELSE IF q % 2 = 0 THEN q ELSE q + 1

\* generate_order_number(): "ORD-{randint(10000000, 99999999)}".
generate_order_number(n) == <<"ORD", n>>

OrderNumberSpace ==
    {generate_order_number(n) : n \in {10000000, 55555555, 99999999}}

Statuses == {"pending", "confirmed", "processing", "shipped", "delivered",
             "cancelled", "refunded"}

\* random.uniform(0, 0.1) and random.uniform(0, 0.2), in thousandths.
TaxRates == {0, 37, 100}
DiscountRates == {0, 125, 200}
\* round(random.uniform(0, 50), 2), in cents.
ShippingSpace == {0, 1999, 5000}
\* fake.date_time_between("-2y", "now"), as a day number; isoformat() keeps
\* the order of the days.
OrderDays == {1, 730}

\* Line 184 with one status too many.
ShippedOrProcessing == {"processing", "shipped", "delivered"}

\* Lines 184 and 185: the statuses that carry a shippedDate, a deliveredDate.
ShippedStatuses == {"shipped", "delivered"}
DeliveredStatuses == {"delivered"}

\* Line 141 without the quantity.
generate_order_item_unit(product, quantity) ==
    [productId |-> product._id, sku |-> product.sku, price |-> product.price,
     quantity |-> quantity, subtotal |-> Round2(product.price, 1)]

generate_order_item(product, quantity) ==
    [productId |-> product._id, sku |-> product.sku, price |-> product.price,
     quantity |-> quantity, subtotal |-> Round2(product.price * quantity, 1)]

\* generate_order, d being the random draws of the call: d.sample the
\* positions random.sample picks, d.quantity the quantity of each item,
\* d.customer the position random.choice picks, d.ship_days and
\* d.deliver_days the two day offsets.
generate_order(customer_ids, pool, d, id) ==
    LET items == [i \in DOMAIN d.sample |->
                     generate_order_item(pool[d.sample[i]], d.quantity[i])]
        subtotal == SumSeq([i \in DOMAIN items |-> items[i].subtotal])
        tax == Round2(subtotal * d.tax_rate, 1000)
        shipping == d.shipping
        discount == Round2(subtotal * d.discount_rate, 1000)
        total_amount == Round2(subtotal + tax + shipping - discount, 1)
    IN  [_id |-> id,
         orderNumber |-> d.order_number,
         customerId |-> customer_ids[d.customer],
         items |-> items,
         payment |-> [amount |-> total_amount],
         subtotal |-> subtotal,
         tax |-> tax,
         shipping |-> shipping,
         discount |-> discount,
         totalAmount |-> total_amount,
         status |-> d.status,
         orderDate |-> d.order_date,
         shippedDate |-> IF d.status \in ShippedStatuses
                         THEN d.order_date + d.ship_days ELSE None,
         deliveredDate |-> IF d.status \in DeliveredStatuses
                           THEN d.order_date + d.deliver_days ELSE None]

\* One call of generate_order(user_ids, products, order_number_set) of the
\* comprehension of line 283, which makes count calls. An offset that the
\* call does not draw (lines 184-185) is None.
GenerateOrder(w, count) ==
    /\ pc = "GenerateOrders"
    /\ Len(orders) < count
    /\ \E order_number \in DrawAny("order_number", w,
                                   Unused(OrderNumberSpace, order_number_set)) :
       \E k \in {Min(num_items, Len(products)) :
                    num_items \in DrawInt("num_items", w, 1..MaxItems)} :
       \E sample \in Draw("item_sample", w, Samples(Len(products), k),
                          FirstSample(k)) :
       \E quantity \in Draw("quantity", w, [1..k -> 1..MaxQuantity],
                            [i \in 1..k |-> 3]) :
       \E tax_rate \in Draw("money", w, TaxRates, 37) :
       \E shipping \in Draw("money", w, ShippingSpace, 1999) :
       \E discount_rate \in Draw("money", w, DiscountRates, 125) :
       \E order_date \in DrawInt("order_date", w, OrderDays) :
       \E status \in Draw("status", w, Statuses, "delivered") :
       \E customer \in DrawInt("customer", w, DOMAIN user_ids) :
       \E ship_days \in IF status \in {"shipped", "delivered"}
                        THEN DrawInt("offsets", w, ShipMin..ShipMax)
                        ELSE {None} :
       \E deliver_days \in IF status = "delivered"
                           THEN DrawInt("offsets", w, DeliverMin..DeliverMax)
                           ELSE {None} :
          LET d == [order_number |-> order_number, sample |-> sample,
                    quantity |-> quantity, tax_rate |-> tax_rate,
                    shipping |-> shipping, discount_rate |-> discount_rate,
                    order_date |-> order_date, status |-> status,
                    customer |-> customer, ship_days |-> ship_days,
                    deliver_days |-> deliver_days]
          IN  /\ order_number_set' = order_number_set \cup {order_number}
              /\ orders' = Append(orders,
                                  generate_order(user_ids, products, d, next_id))
    /\ next_id' = next_id + 1
    /\ UNCHANGED <<varied, pc, sink, userVars, categoryVars, productVars,
                   linkVars, reviewVars>>

\* Line 284: orders.json.
FinishOrders ==
    /\ pc = "GenerateOrders"
    /\ Len(orders) = NumOrders
    /\ sink' = Append(sink, save_to_json(orders, "orders.json"))
    /\ pc' = "IndexPurchases"
    /\ UNCHANGED <<varied, next_id, userVars, categoryVars, productVars, linkVars,
                   orderVars, reviewVars>>

\* --------------------------------------------------------------- reviews
\* Lines 291-293: one line item of a customer's order goes into the index.
AddPurchase(index, customer_id, product_id) ==
    IF customer_id \in DOMAIN index
    THEN [index EXCEPT ![customer_id] = Append(@, product_id)]
    ELSE index @@ (customer_id :> <<product_id>>)

RECURSIVE AddItems(_, _, _)
AddItems(index, customer_id, items) ==
    IF items = <<>> THEN index
    ELSE AddItems(AddPurchase(index, customer_id, items[1].productId),
                  customer_id, Tail(items))

\* Lines 287-293: order_products, from the empty dict.
RECURSIVE BuildIndex(_, _)
BuildIndex(index, order_list) ==
    IF order_list = <<>> THEN index
    ELSE BuildIndex(AddItems(index, order_list[1].customerId, order_list[1].items),
                    Tail(order_list))

\* order_products.get(user_id, [])
Purchases(index, user_id) ==
    IF user_id \in DOMAIN index THEN index[user_id] ELSE <<>>

\* Lines 287-296: the purchase index and the empty review collections.
IndexPurchases ==
    /\ pc = "IndexPurchases"
    /\ order_products' = BuildIndex(<<>>, orders)
    /\ product_reviews' = <<>>
    /\ product_user_pairs' = {}
    /\ pc' = "GenerateReviews"
    /\ UNCHANGED <<varied, next_id, sink, userVars, categoryVars, productVars, linkVars,
                   orderVars, drawn>>

\* Line 196 with the product left out of the test.
VerifiedForAnyProduct(product_id, user_id, index) ==
    Purchases(index, user_id) # <<>>

\* Line 196: verified.
Verified(product_id, user_id, index) ==
    product_id \in Range(Purchases(index, user_id))

\* generate_product_review: <<>> for None, else <<review>>.
generate_product_review(product_id, user_id, index, pairs, id) ==
    IF <<product_id, user_id>> \in pairs THEN <<>>
    ELSE <<[_id |-> id, productId |-> product_id, userId |-> user_id,
            verified |-> Verified(product_id, user_id, index)]>>

\* Lines 298-299: the positions random.choice picks in user_ids and in
\* product_ids. The representative draw is one of a pair not yet reviewed,
\* while there is one.
ReviewDraws(w) ==
    LET all == (DOMAIN user_ids) \X (DOMAIN product_ids)
        fresh == {up \in all :
                     <<product_ids[up[2]], user_ids[up[1]]>> \notin product_user_pairs}
    IN  IF "review_pair" \in w \/ fresh = {} THEN all
        ELSE {CHOOSE up \in fresh : TRUE}

\* Lines 297-302: one iteration of the review loop.
ReviewIteration(w) ==
    /\ pc = "GenerateReviews"
    /\ Len(product_reviews) < NumReviews
    /\ \E up \in ReviewDraws(w) :
          LET user_id == user_ids[up[1]]
              product_id == product_ids[up[2]]
              review == generate_product_review(product_id, user_id,
                                                order_products,
                                                product_user_pairs, next_id)
          IN  /\ drawn' = <<product_id, user_id>>
              /\ IF review # <<>>
                 THEN /\ product_user_pairs' =
                            product_user_pairs \cup {<<product_id, user_id>>}
                      /\ product_reviews' = Append(product_reviews, review[1])
                      /\ next_id' = next_id + 1
                 ELSE UNCHANGED <<product_user_pairs, product_reviews, next_id>>
    /\ UNCHANGED <<varied, pc, sink, userVars, categoryVars, productVars, linkVars,
                   orderVars, order_products>>

\* Line 303: product_reviews.json; the script ends.
FinishReviews ==
    /\ pc = "GenerateReviews"
    /\ Len(product_reviews) >= NumReviews
    /\ sink' = Append(sink, save_to_json(product_reviews, "product_reviews.json"))
    /\ pc' = "Done"
    /\ UNCHANGED <<varied, next_id, userVars, categoryVars, productVars, linkVars,
                   orderVars, reviewVars>>

\* ------------------------------------------------------------- the run
\* Lines 225-227: the script starts with nothing generated.
Start ==
    /\ pc = "GenerateUsers"
    /\ next_id = 1
    /\ sink = <<>>
    /\ email_set = {} /\ users = <<>> /\ user_ids = <<>>
    /\ slug_set = {} /\ categories = <<>> /\ level_counts = <<>>
    /\ level = 0 /\ parent_ids = <<>> /\ level_categories = <<>>
    /\ additional = <<>> /\ category_ids = <<>>
    /\ sku_set = {} /\ products = <<>> /\ product_ids = <<>>
    /\ product_categories = <<>> /\ product_category_pairs = {}
    /\ link_index = 0
    /\ order_number_set = {} /\ orders = <<>>
    /\ order_products = <<>>
    /\ product_reviews = <<>> /\ product_user_pairs = {} /\ drawn = <<>>

\* The stages up to the orders.
Upstream ==
    \/ GenerateUser(varied)
    \/ FinishUsers
    \/ PlanCategories(varied)
    \/ RootCategory(varied)
    \/ BeginLevels
    \/ LevelCategory(varied)
    \/ EndLevel
    \/ TopUpCategory(varied)
    \/ FinishCategories
    \/ GenerateProduct(varied)
    \/ FinishProducts
    \/ LinkProduct(varied)
    \/ FinishLinks

Next ==
    \/ Upstream
    \/ GenerateOrder(varied, NumOrders)
    \/ FinishOrders
    \/ IndexPurchases
    \/ ReviewIteration(varied)
    \/ FinishReviews

\* The whole run, the random source varying who orders, how many items and
\* which (user, product) pair the review loop draws.
Init == Start /\ varied = {"customer", "num_items", "review_pair"}

Spec == Init /\ [][Next]_vars

\* The interpreter keeps executing the script: a step that can be taken is
\* taken.
FairSpec == Spec /\ WF_vars(Next)

\* The run with the random source varying the sizes of the category levels
\* and the parents drawn.
InitCategories == Start /\ varied = {"level_size", "parent"}

SpecCategories == InitCategories /\ [][Next]_vars

\* The run with the random source varying the number of categories of a
\* product and the coins of isPrimary.
InitLinks == Start /\ varied = {"num_categories", "primary_gen", "primary_flip"}

SpecLinks == InitLinks /\ [][Next]_vars

\* The run with the random source varying the values of one registry: the
\* emails, the category names, the slug suffixes, the SKUs, the categories
\* sampled for a product, the order numbers or the review pairs.
InitRegistries ==
    /\ Start
    /\ varied \in {{"email"}, {"name"}, {"suffix"}, {"sku"}, {"link_sample"},
                   {"order_number"}, {"review_pair"}}

SpecRegistries == InitRegistries /\ [][Next]_vars

\* The run up to its first generate_order call.
NextFirstOrder ==
    \/ Upstream
    \/ GenerateOrder(varied, 1)

\* The first order, the random source varying its status, dates and number.
InitOrderDates ==
    Start /\ varied = {"status", "offsets", "order_date", "order_number"}

SpecOrderDates == InitOrderDates /\ [][NextFirstOrder]_vars

\* The first order, the random source varying its customer, items and money.
InitOrderItems ==
    Start /\ varied = {"customer", "num_items", "item_sample", "quantity", "money"}

SpecOrderItems == InitOrderItems /\ [][NextFirstOrder]_vars

\* ================================================================ claims
\* --------------------------------------------------- stages of the run
\* The stage of the spec's state machine a statement of __main__ belongs to.
Rank(at) ==
    CASE at = "GenerateUsers" -> 1
      [] at \in {"PlanCategories", "RootCategories", "LevelCategories",
                 "TopUpCategories"} -> 2
      [] at = "GenerateProducts" -> 3
      [] at = "LinkCategories" -> 4
      [] at = "GenerateOrders" -> 5
      [] at = "IndexPurchases" -> 6
      [] at = "GenerateReviews" -> 7
      [] at = "Done" -> 8

\* The full output of stage k exists.
StageComplete(k) ==
    CASE k = 1 -> Len(users) = NumUsers /\ user_ids = Ids(users)
      [] k = 2 -> Len(categories) = NumCategories /\ category_ids = Ids(categories)
      [] k = 3 -> Len(products) = NumProducts /\ product_ids = Ids(products)
      [] k = 4 -> /\ link_index = Len(product_ids) + 1
                  /\ \A i \in DOMAIN product_ids :
                        \E j \in DOMAIN product_categories :
                           product_categories[j].productId = product_ids[i]
      [] k = 5 -> Len(orders) = NumOrders
      [] k = 6 -> DOMAIN order_products = {orders[j].customerId : j \in DOMAIN orders}
      [] k = 7 -> Len(product_reviews) = NumReviews

\* Stage k has produced nothing yet.
StageNotStarted(k) ==
    CASE k = 1 -> users = <<>>
      [] k = 2 -> categories = <<>> /\ level_counts = <<>> /\ slug_set = {}
      [] k = 3 -> products = <<>> /\ sku_set = {}
      [] k = 4 -> product_categories = <<>> /\ link_index <= 1
      [] k = 5 -> orders = <<>> /\ order_number_set = {}
      [] k = 6 -> order_products = <<>>
      [] k = 7 -> product_reviews = <<>> /\ product_user_pairs = {}

StagesInOrder ==
    \A k \in 1..7 :
       /\ k < Rank(pc) => StageComplete(k)
       /\ k > Rank(pc) => StageNotStarted(k)

\* The six files, in the order of the stages that generate them.
Files ==
    << <<"users.json", users>>, <<"categories.json", categories>>,
       <<"products.json", products>>,
       <<"product_categories.json", product_categories>>,
       <<"orders.json", orders>>, <<"product_reviews.json", product_reviews>> >>

\* The number of generating stages (all but IndexPurchases) before stage k.
Generated(k) == IF k <= 6 THEN k - 1 ELSE k - 2

\* C10, as stated: the stages run in order, each after the previous one's
\* full output exists, and nothing is written to the sink before the
\* reviews are all generated.
C10_FlushAfterReviews ==
    /\ StagesInOrder
    /\ sink # <<>> => Len(product_reviews) = NumReviews /\ Rank(pc) >= 7

\* C10, amended: the stages run in order, none skipped or repeated, each
\* after the previous one's full output exists; each collection is written
\* to the sink, whole, at the end of the stage that generates it, so that
\* only product_reviews.json is written after GenerateReviews.
C10_StagesInOrder ==
    /\ StagesInOrder
    /\ sink = SubSeq(Files, 1, Generated(Rank(pc)))

C10_Witness == pc = "Done" /\ Len(sink) = 6

\* ----------------------------------------------------------- termination
\* C3: every run ends, in Done or in the Generator Exhausted failure (which
\* no statement of the script raises).
C3_RunEnds == <>(pc \in {"Done", "GeneratorExhausted"})

\* ------------------------------------------------------ verified reviews
Purchased(user_id, product_id) ==
    \E j \in DOMAIN orders :
       /\ orders[j].customerId = user_id
       /\ \E k \in DOMAIN orders[j].items :
             orders[j].items[k].productId = product_id

\* C4: a review is verified iff some order of its user has a line item of
\* its product, and while reviews are generated the purchase index holds
\* exactly the purchases of the orders.
C4_VerifiedIffPurchased ==
    /\ \A i \in DOMAIN product_reviews :
          product_reviews[i].verified
             <=> Purchased(product_reviews[i].userId, product_reviews[i].productId)
    /\ Rank(pc) >= 7 =>
          \A u \in Range(user_ids) : \A p \in Range(product_ids) :
             p \in Range(Purchases(order_products, u)) <=> Purchased(u, p)

C4_Witness ==
    /\ pc = "Done"
    /\ \E i, j \in DOMAIN product_reviews :
          product_reviews[i].verified /\ ~product_reviews[j].verified

\* ------------------------------------------------------ category forest
\* The categories in the order they were generated.
GeneratedCategories == categories \o level_categories \o additional

\* Following parentId from id reaches None in at most fuel steps.
RECURSIVE ReachesRoot(_, _)
ReachesRoot(id, fuel) ==
    IF id = None THEN TRUE
    ELSE IF fuel = 0 THEN FALSE
    ELSE LET at == {c \in Range(GeneratedCategories) : c._id = id}
         IN  at # {} /\ \A c \in at : ReachesRoot(c.parentId, fuel - 1)

\* C5: at every point the parent of a category is a category appended to
\* the list strictly earlier, generated in a prior level, and the parent
\* links lead to a root.
C5_ParentsEarlier ==
    LET all == GeneratedCategories IN
    \A i \in DOMAIN all :
       /\ all[i].parentId # None =>
             \E j \in DOMAIN categories :
                /\ j < i
                /\ categories[j]._id = all[i].parentId
                /\ categories[j].level < all[i].level
       /\ ReachesRoot(all[i]._id, Len(all))

\* A category of level 2 under one of level 1, and another under a root.
C5_Witness ==
    /\ Rank(pc) > 2
    /\ \E i, j, k \in DOMAIN categories :
          /\ categories[i].level = 2 /\ categories[i].parentId = categories[j]._id
          /\ categories[j].level = 1
          /\ categories[k].level = 2 /\ k # i
          /\ \E r \in DOMAIN categories :
                categories[r].level = 0 /\ categories[k].parentId = categories[r]._id

\* ------------------------------------------------------- primary links
PrimaryLinks(product_id) ==
    {j \in DOMAIN product_categories :
        /\ product_categories[j].productId = product_id
        /\ product_categories[j].isPrimary}

\* C1: after LinkCategories at most one link of a product is primary.
C1_AtMostOnePrimary ==
    Rank(pc) > 4 =>
       \A i \in DOMAIN product_ids : Cardinality(PrimaryLinks(product_ids[i])) <= 1

\* ------------------------------------------------------------ registries
Distinct(s) == \A i, j \in DOMAIN s : i # j => s[i] # s[j]

Emails == [i \in DOMAIN users |-> users[i].email]
Slugs == [i \in DOMAIN GeneratedCategories |-> GeneratedCategories[i].slug]
Skus == [i \in DOMAIN products |-> products[i].sku]
OrderNumbers == [i \in DOMAIN orders |-> orders[i].orderNumber]
ReviewPairs ==
    [i \in DOMAIN product_reviews |->
        <<product_reviews[i].productId, product_reviews[i].userId>>]
LinkPairs ==
    [i \in DOMAIN product_categories |->
        <<product_categories[i].productId, product_categories[i].categoryId>>]

C2_DeliveredAfterShipped ==
    \A i \in DOMAIN orders :
       orders[i].status = "delivered" =>
          /\ orders[i].shippedDate # None
          /\ orders[i].deliveredDate # None
          /\ orders[i].deliveredDate > orders[i].shippedDate
          /\ orders[i].shippedDate > orders[i].orderDate

\* C7: shippedDate is present only for a shipped or delivered order,
\* deliveredDate only for a delivered one.
C7_DatesOnlyWhenShipped ==
    \A i \in DOMAIN orders :
       /\ orders[i].shippedDate # None => orders[i].status \in {"shipped", "delivered"}
       /\ orders[i].deliveredDate # None => orders[i].status = "delivered"
       /\ orders[i].status \in {"pending", "confirmed", "processing", "cancelled",
                                "refunded"}
             => orders[i].shippedDate = None /\ orders[i].deliveredDate = None

C7_Witness ==
    \E i \in DOMAIN orders :
       /\ orders[i].status = "shipped"
       /\ orders[i].shippedDate # None
       /\ orders[i].deliveredDate = None

C9_Totals ==
    \A i \in DOMAIN orders :
       LET o == orders[i] IN
       /\ o.subtotal = SumSeq([k \in DOMAIN o.items |-> o.items[k].subtotal])
       /\ \A k \in DOMAIN o.items :
             o.items[k].subtotal = o.items[k].price * o.items[k].quantity
       /\ o.totalAmount = o.subtotal + o.tax + o.shipping - o.discount
       /\ o.payment.amount = o.totalAmount

\* An order with an item of 3 at 19.99 (59.97), another item, tax and a
\* discount.
C9_Witness ==
    \E i \in DOMAIN orders :
       /\ Len(orders[i].items) >= 2
       /\ \E k \in DOMAIN orders[i].items :
             /\ orders[i].items[k].price = 1999
             /\ orders[i].items[k].quantity = 3
             /\ orders[i].items[k].subtotal = 5997
       /\ orders[i].tax > 0 /\ orders[i].discount > 0

====
